---------------------------- MODULE Spec2Model ----------------------------
(***************************************************************************)
(* The submit-then-poll job lifecycle of the DeforestationMonitor page     *)
(* (src/unnamed/part_001, duplicated in src/frontend/app/page.tsx).        *)
(*                                                                         *)
(* The page holds the React state result / loading / error / progress.    *)
(* runAnalysis posts the job, and on a success response starts a          *)
(* setInterval timer whose async callback fetches /jobs/{job_id} and      *)
(* acts on the status of the response.  The timer fires on its period     *)
(* whether or not the fetch of an earlier tick has settled, so each job   *)
(* has a list of poll requests in flight; the backend answers them and    *)
(* the network delivers them in any order.                                 *)
(*                                                                         *)
(* Around the poll loop (Spec, FairSpec, HistSpec) the module has the form *)
(* of the page (FormSpec: AOI drawn or pasted, years), the drone upload    *)
(* (DroneSpec), the shapes of a completed response (ResponseSpec), the     *)
(* Home page of src/frontend/app/page.tsx (HomeSpec, HomePollSpec) and the *)
(* renders of the three ResultsPanel components (PanelSpec).               *)
(***************************************************************************)
EXTENDS Integers, Sequences, FiniteSets, TLC

\* ------------------------------------------------------------ bounds
\* Number of times Run Analysis is pressed.
MaxRuns == 2
\* Poll requests that are in flight together.
MaxInFlight == 2

Runs == 1..MaxRuns

\* ------------------------------------------------------------ values
\* JavaScript null, for the string-valued state.
Null == "null"
\* useState<any>(null) for result: 0 is null, r is the result of job r.
NoResult == 0

GenericSubmitError == "Failed to submit analysis job"
FetchTypeError == "Failed to fetch"
DefaultJobError == "Analysis failed"
BackendErrorText == "backend error text"
BackendDetail == "backend detail"
BackendPlainText == "backend plain text"

\* Bodies a non-success response of POST /analyze can carry.
SubmitBodies == {"json_detail", "json_no_detail", "plain_text", "empty"}
\* The error field of a failed job: "" is absent or empty (falsy).
JobErrors == {"", BackendErrorText}
\* The status field of a job.
Statuses == {"processing", "completed", "failed"}
Terminal == {"completed", "failed"}

\* ------------------------------------------------------------ the form
\* A state that is null or holds a value: <<>> is null, <<v>> holds v.
NoAOI == <<>>
Some(v) == <<v>>

\* useState<number>(2016), useState<number>(2024) and the options of the
\* two year selectors.
DefaultPastYear == 2016
DefaultPresentYear == 2024
PastYears == {2010, 2012, 2014, 2016, 2018, 2020}
PresentYears == {2020, 2021, 2022, 2023, 2024}

\* A Leaflet LatLng, and the polygons the user draws on the map (the
\* vertices layer.getLatLngs()[0] returns: Leaflet does not repeat the first
\* vertex at the end).
LatLng(lat, lng) == [lat |-> lat, lng |-> lng]
Triangle == <<LatLng(1, 2), LatLng(1, 4), LatLng(3, 4)>>
Quad == <<LatLng(1, 2), LatLng(1, 4), LatLng(3, 4), LatLng(3, 2)>>
Drawings == {Triangle, Quad}

\* Rings of [lng, lat] points that pasted GeoJSON carries.
ClosedRing == <<(<<2, 1>>), (<<4, 1>>), (<<4, 3>>), (<<2, 3>>), (<<2, 1>>)>>
OpenRing == <<(<<2, 1>>), (<<4, 1>>), (<<4, 3>>), (<<2, 3>>)>>
ShortRing == <<(<<2, 1>>), (<<4, 1>>), (<<2, 1>>)>>

\* A value JSON.parse returns.  kind is null, array or object; type is the
\* type property ("" when there is none); coordinates holds the coordinates
\* property when it is an array; geometry holds the geometry property;
\* features is the features array; items is the array itself (of rings).
JSValue(kind, type, coordinates, geometry, features, items) ==
    [kind |-> kind, type |-> type, coordinates |-> coordinates,
     geometry |-> geometry, features |-> features, items |-> items]
JSNull == JSValue("null", "", <<>>, <<>>, <<>>, <<>>)
JSArray(rings) == JSValue("array", "", <<>>, <<>>, <<>>, Some(rings))
PolygonObject(rings) == JSValue("object", "Polygon", Some(rings), <<>>, <<>>, <<>>)
FeatureObject(rings) ==
    JSValue("object", "Feature", <<>>, Some(PolygonObject(rings)), <<>>, <<>>)
FeatureCollectionObject(features) ==
    JSValue("object", "FeatureCollection", <<>>, <<>>, features, <<>>)

\* The texts pasted into the GeoJSON textarea, named by what they hold.
GeojsonInputs ==
    {"not json", "null", "Polygon closed", "Polygon open", "Polygon short",
     "Polygon without coordinates", "MultiLineString", "Feature", "FeatureCollection",
     "ring array"}

SyntaxErrorMessage == "Unexpected token"
TypeErrorMessage == "Cannot read properties of null (reading 'type')"
InvalidPolygonMessage == "Invalid GeoJSON Polygon"

\* JSON.parse(geojsonInput): ok is FALSE when it throws a SyntaxError.
JSONParse(text) ==
    CASE text = "not json" -> [ok |-> FALSE, value |-> JSNull]
      [] text = "null" -> [ok |-> TRUE, value |-> JSNull]
      [] text = "Polygon closed" ->
            [ok |-> TRUE, value |-> PolygonObject(<<ClosedRing>>)]
      [] text = "Polygon open" ->
            [ok |-> TRUE, value |-> PolygonObject(<<OpenRing>>)]
      [] text = "Polygon short" ->
            [ok |-> TRUE, value |-> PolygonObject(<<ShortRing>>)]
      [] text = "Polygon without coordinates" ->
            [ok |-> TRUE,
             value |-> JSValue("object", "Polygon", <<>>, <<>>, <<>>, <<>>)]
      [] text = "MultiLineString" ->
            [ok |-> TRUE,
             value |-> JSValue("object", "MultiLineString", Some(<<OpenRing>>),
                               <<>>, <<>>, <<>>)]
      [] text = "Feature" ->
            [ok |-> TRUE, value |-> FeatureObject(<<ClosedRing>>)]
      [] text = "FeatureCollection" ->
            [ok |-> TRUE, value |-> FeatureCollectionObject(<<FeatureObject(<<ClosedRing>>)>>)]
      [] text = "ring array" ->
            [ok |-> TRUE, value |-> JSArray(<<ClosedRing>>)]

VARIABLES
    mounted,     \* the component is mounted (its setters take effect)
    aoi,         \* useState aoi: NoAOI or Some(coordinates)
    result,      \* useState result
    loading,     \* useState loading
    error,       \* useState error
    progress,    \* useState progress
    nRuns,       \* how many times runAnalysis has passed its AOI guard
    submit,      \* per run: the job-creation request
    timer,       \* per run: the setInterval handle pollInterval is active
    job,         \* per run: the backend's job status
    jobError,    \* per run: the backend's error field of a failed job
    inflight,    \* per run: the poll requests in flight, oldest first
    recording,   \* history is recorded (HistSpec only): netFailed, abandoned
                 \* and the overtaken marks of the requests in flight
    netFailed,   \* per run: a poll round trip of the run, which is still
                 \* polling or awaiting responses, has failed in transport
    abandoned,   \* the runs whose timer was active when the page was left
    pastYear,    \* useState pastYear
    presentYear, \* useState presentYear
    geojsonError,\* useState geojsonError
    sent,        \* the body of the latest job-creation request, <<>> before it
    props,       \* ResultsPanel: the satellite_comparison it was last given
    panel,       \* ResultsPanel: what it last rendered
    polygon,     \* MapAOIClient.tsx: useState polygon
    droneFile,   \* useState droneFile: <<>> or <<file>>
    droneFileId, \* useState droneFileId: <<>> or <<file_id>>
    uploadStatus,\* useState uploadStatus
    uploads,     \* the files whose upload request is in flight
    sentDroneImageId \* the drone_image_id query parameter of the latest
                 \* job-creation request, <<>> when it had none

vars == <<mounted, aoi, result, loading, error, progress, nRuns, submit,
          timer, job, jobError, inflight, recording, netFailed, abandoned,
          pastYear, presentYear, geojsonError, sent, props, panel, polygon,
          droneFile, droneFileId, uploadStatus, uploads, sentDroneImageId>>

page == <<result, loading, error, progress>>
backend == <<job, jobError>>
ghost == <<recording, netFailed, abandoned>>
form == <<pastYear, presentYear, geojsonError>>
resultsPanel == <<props, panel>>
drone == <<droneFile, droneFileId, uploadStatus, uploads>>
\* What the poll loop leaves alone: the form, the request body that was sent
\* and the results panel.
offPoll == <<form, sent, resultsPanel, polygon, drone, sentDroneImageId>>

\* A React setter: a no-op once the component is unmounted.
SetState(old, new) == IF mounted THEN new ELSE old

\* ------------------------------------------------------------ sequences
RemoveAt(s, i) == [k \in 1..(Len(s) - 1) |-> IF k < i THEN s[k] ELSE s[k + 1]]

\* Request i leaves the list; the requests started before it that are still
\* in flight have been overtaken by it (history).
Overtake(s, i) ==
    RemoveAt([k \in 1..Len(s) |->
                 IF recording /\ k < i THEN [s[k] EXCEPT !.overtaken = TRUE]
                 ELSE s[k]], i)

RECURSIVE SumLen(_, _)
SumLen(f, n) == IF n = 0 THEN 0 ELSE Len(f[n]) + SumLen(f, n - 1)

\* The poll requests of all the jobs that are in flight.
TotalInFlight == SumLen(inflight, MaxRuns)

InitPage ==
    /\ mounted = TRUE
    /\ aoi = NoAOI
    /\ pastYear = DefaultPastYear
    /\ presentYear = DefaultPresentYear
    /\ geojsonError = Null
    /\ sent = <<>>
    /\ props = <<>>
    /\ panel = <<>>
    /\ polygon = NoAOI
    /\ droneFile = <<>>
    /\ droneFileId = <<>>
    /\ uploadStatus = ""
    /\ uploads = {}
    /\ sentDroneImageId = <<>>
    /\ result = NoResult
    /\ loading = FALSE
    /\ error = Null
    /\ progress = ""
    /\ nRuns = 0
    /\ submit = [r \in Runs |-> "none"]
    /\ timer = [r \in Runs |-> FALSE]
    /\ job = [r \in Runs |-> "none"]
    /\ jobError = [r \in Runs |-> ""]
    /\ inflight = [r \in Runs |-> <<>>]
    /\ netFailed = [r \in Runs |-> FALSE]
    /\ abandoned = {}

Init == InitPage /\ recording = FALSE

\* The same program with its history variables recorded: the poll round
\* trips that failed and the requests that were overtaken.
InitHist == InitPage /\ recording = TRUE


\* ------------------------------------------------------------ AOI
\* What none of the handlers of the form touches.
offForm ==
    <<mounted, page, nRuns, submit, timer, backend, inflight, ghost, sent,
      resultsPanel, polygon, drone, sentDroneImageId>>

\* const coordinates = [latLngs.map((p) => [p.lng, p.lat])]
DrawnCoordinates(latLngs) ==
    <<[k \in 1..Len(latLngs) |-> <<latLngs[k].lng, latLngs[k].lat>>]>>

\* MapAOI's onAOISelect={setAOI}: a polygon has been drawn on the map.
handleCreated(latLngs) ==
    /\ mounted
    /\ aoi' = Some(DrawnCoordinates(latLngs))
    /\ UNCHANGED <<offForm, form>>

\* The poll loop needs an AOI, whichever: one drawing.
SelectAOI == handleCreated(Quad)

\* Mutant: the test of parsed.type is left out.
UseGeoJSONAnyType(text) ==
    /\ mounted
    /\ LET parsed == JSONParse(text) IN
         IF ~parsed.ok THEN
            /\ geojsonError' = SyntaxErrorMessage
            /\ UNCHANGED aoi
         ELSE IF parsed.value.kind = "null" THEN
            /\ geojsonError' = TypeErrorMessage
            /\ UNCHANGED aoi
         ELSE IF parsed.value.coordinates # <<>> THEN
            /\ aoi' = Some(parsed.value.coordinates[1])
            /\ geojsonError' = Null
         ELSE
            /\ geojsonError' = InvalidPolygonMessage
            /\ UNCHANGED aoi
    /\ UNCHANGED <<offForm, pastYear, presentYear>>

\* The onClick of the Use GeoJSON AOI button, with geojsonInput = text.
UseGeoJSON(text) ==
    /\ mounted
    /\ LET parsed == JSONParse(text) IN
         IF ~parsed.ok THEN
            /\ geojsonError' = SyntaxErrorMessage
            /\ UNCHANGED aoi
         ELSE IF parsed.value.kind = "null" THEN
            /\ geojsonError' = TypeErrorMessage
            /\ UNCHANGED aoi
         ELSE IF /\ parsed.value.type = "Polygon"
                 /\ parsed.value.coordinates # <<>> THEN
            /\ aoi' = Some(parsed.value.coordinates[1])
            /\ geojsonError' = Null
         ELSE
            /\ geojsonError' = InvalidPolygonMessage
            /\ UNCHANGED aoi
    /\ UNCHANGED <<offForm, pastYear, presentYear>>

\* onChange of the two year selectors.
SetPastYear(y) ==
    /\ mounted
    /\ pastYear' = y
    /\ UNCHANGED <<offForm, aoi, presentYear, geojsonError>>

SetPresentYear(y) ==
    /\ mounted
    /\ presentYear' = y
    /\ UNCHANGED <<offForm, aoi, pastYear, geojsonError>>

\* ------------------------------------------------------------ runAnalysis
\* The Run Analysis button is disabled={!aoi || loading}; the handler runs
\* to its first await: the state reset and the POST of the job.
Payload ==
    [geometry |-> [type |-> "Polygon", coordinates |-> aoi[1]],
     past_year |-> pastYear, present_year |-> presentYear]

\* Mutant: the URL never has the query parameter.
SubmitQueryNone == <<>>

\* droneFileId ? `${API_BASE}/analyze?drone_image_id=${droneFileId}`
\*             : `${API_BASE}/analyze`
SubmitQuery == droneFileId

Run ==
    /\ mounted
    /\ aoi # NoAOI
    /\ ~loading
    /\ nRuns < MaxRuns
    /\ nRuns' = nRuns + 1
    /\ loading' = TRUE
    /\ error' = Null
    /\ result' = NoResult
    /\ progress' = "Submitting analysis job..."
    /\ submit' = [submit EXCEPT ![nRuns + 1] = "pending"]
    /\ sent' = Some(Payload)
    /\ sentDroneImageId' = SubmitQuery
    /\ props' = <<>>
    /\ panel' = <<>>
    /\ UNCHANGED <<mounted, aoi, timer, backend, inflight, ghost, form, polygon,
                   drone>>

\* setInterval(..., 3000) on a success response: the job exists at the
\* backend and the timer of run r is started.
SubmitOk(r) ==
    /\ submit[r] = "pending"
    /\ submit' = [submit EXCEPT ![r] = "ok"]
    /\ job' = [job EXCEPT ![r] = "processing"]
    /\ timer' = [timer EXCEPT ![r] = TRUE]
    /\ progress' = SetState(progress, "Job submitted")
    /\ UNCHANGED <<offPoll, mounted, aoi, result, loading, error, nRuns, jobError,
                   inflight, ghost>>

\* if (!submitResponse.ok) throw new Error("Failed to submit analysis job"):
\* the body of the response is not read.
SubmitErrorMessage(body) == GenericSubmitError

\* The catch block of runAnalysis.
CatchSubmit(message) ==
    /\ error' = SetState(error, message)
    /\ loading' = SetState(loading, FALSE)
    /\ progress' = SetState(progress, "")

\* Mutant: no throw on a non-success response, so the handler goes on to
\* setInterval.
SubmitRejectNoThrow(r, body) ==
    /\ submit[r] = "pending"
    /\ submit' = [submit EXCEPT ![r] = "failed"]
    /\ timer' = [timer EXCEPT ![r] = TRUE]
    /\ progress' = SetState(progress, "Job submitted")
    /\ UNCHANGED <<offPoll, mounted, aoi, result, loading, error, nRuns, backend,
                   inflight, ghost>>

\* The response arrives with a non-success status: the throw skips the
\* setInterval call.
SubmitReject(r, body) ==
    /\ submit[r] = "pending"
    /\ submit' = [submit EXCEPT ![r] = "failed"]
    /\ CatchSubmit(SubmitErrorMessage(body))
    /\ UNCHANGED <<offPoll, mounted, aoi, result, nRuns, timer, backend, inflight, ghost>>

\* fetch itself rejects (no response at all).
SubmitNetFail(r) ==
    /\ submit[r] = "pending"
    /\ submit' = [submit EXCEPT ![r] = "failed"]
    /\ CatchSubmit(FetchTypeError)
    /\ UNCHANGED <<offPoll, mounted, aoi, result, nRuns, timer, backend, inflight, ghost>>

\* ------------------------------------------------------------ backend
\* The job of run r reaches a terminal status.
BackendFinish(r, status, e) ==
    /\ job[r] = "processing"
    /\ job' = [job EXCEPT ![r] = status]
    /\ jobError' = [jobError EXCEPT ![r] = IF status = "failed" THEN e ELSE ""]
    /\ UNCHANGED <<offPoll, mounted, aoi, page, nRuns, submit, timer, inflight, ghost>>

\* The backend reads the job at some moment between the sending of a poll
\* request and the arrival of its response.  A job changes status once, so
\* what it reads is the status at one of the two ends.
Answers(r, i) == {inflight[r][i].sentIn, job[r]}

\* ------------------------------------------------------------ polling
\* The interval timer fires: the callback starts fetch(`/jobs/${job_id}`),
\* whatever became of the fetches of the earlier ticks.
Tick(r) ==
    /\ timer[r]
    /\ TotalInFlight < MaxInFlight
    /\ inflight' = [inflight EXCEPT ![r] =
                      Append(@, [sentIn |-> job[r], overtaken |-> FALSE])]
    /\ UNCHANGED <<offPoll, mounted, aoi, page, nRuns, submit, timer, backend, ghost>>

\* Run r can still act: its timer is active or a response is awaited.
\* netFailed is kept only that long.
Alive(r) == timer[r] \/ inflight[r] # <<>>

\* Mutant: the terminal branches do not clear the interval.
ClearIntervalOmitted(r) == timer

\* clearInterval(pollInterval)
ClearInterval(r) == [timer EXCEPT ![r] = FALSE]

\* jobData.error || "Analysis failed"
FailedMessage(e) == IF e = "" THEN DefaultJobError ELSE e

\* The callback resumes after its two awaits with the answer to request i.
PollDeliver(r, i, status) ==
    /\ i \in 1..Len(inflight[r])
    /\ status \in Answers(r, i)
    /\ LET jobData == [status |-> status, error |-> jobError[r]] IN
         IF jobData.status = "completed" THEN
            /\ result' = SetState(result, r)
            /\ loading' = SetState(loading, FALSE)
            /\ progress' = SetState(progress, "")
            /\ timer' = ClearInterval(r)
            /\ UNCHANGED error
         ELSE IF jobData.status = "failed" THEN
            /\ error' = SetState(error, FailedMessage(jobData.error))
            /\ loading' = SetState(loading, FALSE)
            /\ progress' = SetState(progress, "")
            /\ timer' = ClearInterval(r)
            /\ UNCHANGED result
         ELSE
            /\ progress' = SetState(progress, "Processing satellite and drone data...")
            /\ UNCHANGED <<result, loading, error, timer>>
    /\ inflight' = [inflight EXCEPT ![r] = Overtake(@, i)]
    /\ UNCHANGED <<offPoll, mounted, aoi, nRuns, submit, backend, recording, abandoned>>
    /\ netFailed' = [netFailed EXCEPT ![r] = @ /\ Alive(r)']

\* The response to request i has a non-success HTTP status and a JSON body
\* (an error envelope, without a status field).  The callback does not look
\* at pollResponse.ok: jobData.status is undefined and the else branch runs.
PollHttpError(r, i) ==
    /\ i \in 1..Len(inflight[r])
    /\ progress' = SetState(progress, "Processing satellite and drone data...")
    /\ inflight' = [inflight EXCEPT ![r] = Overtake(@, i)]
    /\ UNCHANGED <<offPoll, mounted, aoi, result, loading, error, nRuns, submit, timer,
                   backend, recording, abandoned>>
    /\ netFailed' = [netFailed EXCEPT ![r] = @ /\ Alive(r)']

\* The fetch of request i rejects (or the body of the response is not
\* JSON): the async callback rejects with it, no handler runs and no state
\* is set.
PollNetFail(r, i) ==
    /\ i \in 1..Len(inflight[r])
    /\ inflight' = [inflight EXCEPT ![r] = RemoveAt(@, i)]
    /\ UNCHANGED <<offPoll, mounted, aoi, page, nRuns, submit, timer, backend, recording,
                   abandoned>>
    /\ netFailed' = [netFailed EXCEPT ![r] = recording /\ Alive(r)']

\* ------------------------------------------------------------ unmount
\* The page is left: React discards the state of the component.  The
\* component registers no cleanup, so the timers and the requests in flight
\* are left as they are.
Unmount ==
    /\ mounted
    /\ mounted' = FALSE
    /\ aoi' = NoAOI
    /\ pastYear' = DefaultPastYear
    /\ presentYear' = DefaultPresentYear
    /\ geojsonError' = Null
    /\ result' = NoResult
    /\ loading' = FALSE
    /\ error' = Null
    /\ progress' = ""
    /\ droneFile' = <<>>
    /\ droneFileId' = <<>>
    /\ uploadStatus' = ""
    /\ abandoned' = IF recording THEN {r \in Runs : timer[r]} ELSE {}
    /\ UNCHANGED <<nRuns, submit, timer, backend, inflight, recording, netFailed,
                   sent, resultsPanel, polygon, uploads, sentDroneImageId>>

Next ==
    \/ SelectAOI
    \/ Run
    \/ \E r \in Runs : SubmitOk(r)
    \/ \E r \in Runs, body \in SubmitBodies : SubmitReject(r, body)
    \/ \E r \in Runs : SubmitNetFail(r)
    \/ \E r \in Runs, e \in JobErrors : BackendFinish(r, "failed", e)
    \/ \E r \in Runs : BackendFinish(r, "completed", "")
    \/ \E r \in Runs : Tick(r)
    \/ \E r \in Runs, i \in 1..MaxInFlight, status \in Statuses :
          PollDeliver(r, i, status)
    \/ \E r \in Runs, i \in 1..MaxInFlight : PollHttpError(r, i)
    \/ \E r \in Runs, i \in 1..MaxInFlight : PollNetFail(r, i)
    \/ Unmount

Spec == Init /\ [][Next]_vars

\* Timer ticks keep coming while a timer is active (its tick is only ever
\* held back here by MaxInFlight, which the browser does not have), and
\* poll round trips do not fail for ever: again and again one succeeds.
Fairness ==
    /\ \A r \in Runs : SF_vars(Tick(r))
    /\ \A r \in Runs :
          SF_vars(\E i \in 1..MaxInFlight, status \in Statuses :
                     PollDeliver(r, i, status))

FairSpec == Init /\ [][Next]_vars /\ Fairness

HistSpec == InitHist /\ [][Next]_vars

\* The form of the page and the submitting of the job: the AOI is drawn or
\* pasted, the years are picked, Run Analysis is pressed, and the request
\* fails in transport so that the button is enabled again.
NextForm ==
    \/ \E latLngs \in Drawings : handleCreated(latLngs)
    \/ \E text \in GeojsonInputs : UseGeoJSON(text)
    \/ \E y \in PastYears : SetPastYear(y)
    \/ \E y \in PresentYears : SetPresentYear(y)
    \/ Run
    \/ \E r \in Runs : SubmitNetFail(r)

FormSpec == Init /\ [][NextForm]_vars

\* ------------------------------------------------------------ drone image
\* The files the user picks, and the file_id the backend answers an upload
\* of each with.
Files == {"a.tif", "b.tif"}
FileId(file) == IF file = "a.tif" THEN "id-a" ELSE "id-b"
Uploaded(file) == IF file = "a.tif" THEN "Uploaded: a.tif" ELSE "Uploaded: b.tif"
DroneUploadFailed == "Upload failed: Drone upload failed"
DroneFetchFailed == "Upload failed: Failed to fetch"
UploadErrors == {DroneUploadFailed, DroneFetchFailed}

\* What the drone step of the form leaves alone.
offDrone ==
    <<mounted, aoi, page, nRuns, submit, timer, backend, inflight, ghost, form,
      sent, resultsPanel, polygon, sentDroneImageId>>

\* onChange of the file input: e.target.files?.[0] || null.
SetDroneFile(file) ==
    /\ mounted
    /\ droneFile' = file
    /\ UNCHANGED <<offDrone, droneFileId, uploadStatus, uploads>>

\* The Upload button is disabled={!droneFile}; handleDroneUpload runs to its
\* await of the POST.  One upload of a file is in flight at a time here.
handleDroneUpload ==
    /\ mounted
    /\ droneFile # <<>>
    /\ droneFile[1] \notin uploads
    /\ uploadStatus' = "Uploading drone image..."
    /\ uploads' = uploads \cup {droneFile[1]}
    /\ UNCHANGED <<offDrone, droneFile, droneFileId>>

\* The response is ok: setDroneFileId(data.file_id) and the status.
UploadOk(file) ==
    /\ file \in uploads
    /\ uploads' = uploads \ {file}
    /\ droneFileId' = SetState(droneFileId, Some(FileId(file)))
    /\ uploadStatus' = SetState(uploadStatus, Uploaded(file))
    /\ UNCHANGED <<offDrone, droneFile>>

\* Mutant: the catch block forgets the identifier.
CatchUploadForgets(message) ==
    /\ uploadStatus' = SetState(uploadStatus, message)
    /\ droneFileId' = <<>>

\* The catch block of handleDroneUpload.
CatchUpload(message) ==
    /\ uploadStatus' = SetState(uploadStatus, message)
    /\ UNCHANGED droneFileId

\* The response is not ok (throw new Error("Drone upload failed")) or the
\* fetch rejects.
UploadFail(file, message) ==
    /\ file \in uploads
    /\ uploads' = uploads \ {file}
    /\ CatchUpload(message)
    /\ UNCHANGED <<offDrone, droneFile>>

\* The drone step, the submitting of the job and an analysis that completes.
NextDrone ==
    \/ SelectAOI
    \/ \E file \in {<<>>} \cup {Some(f) : f \in Files} : SetDroneFile(file)
    \/ handleDroneUpload
    \/ \E file \in Files : UploadOk(file)
    \/ \E file \in Files, message \in UploadErrors : UploadFail(file, message)
    \/ Run
    \/ \E r \in Runs : SubmitNetFail(r)
    \/ \E r \in Runs : SubmitOk(r)
    \/ \E r \in Runs : BackendFinish(r, "completed", "")
    \/ \E r \in Runs : Tick(r)
    \/ \E r \in Runs, i \in 1..MaxInFlight, status \in Statuses :
          PollDeliver(r, i, status)

DroneSpec == Init /\ [][NextDrone]_vars

\* ------------------------------------------------------------ Home
\* The Home page of src/frontend/app/page.tsx, with the map of
\* components/MapAOIClient.tsx and submitAnalysis of part_000.  Its aoi is
\* useState<any>: NoAOI or Some(a JSValue).
HomePastYears == {2016, 2018, 2020, 2022}
HomePresentYears == {2021, 2022, 2023, 2024}
HomeRequestFailed == "Backend request failed."

\* A second ring, to tell the features of a collection apart.
OtherRing == <<(<<6, 5>>), (<<8, 5>>), (<<8, 7>>), (<<6, 5>>)>>

\* The AOI objects runAnalysis of Home and submitAnalysis are written for.
HomeAOIs ==
    {PolygonObject(<<ClosedRing>>),
     FeatureObject(<<ClosedRing>>),
     FeatureCollectionObject(<<FeatureObject(<<ClosedRing>>),
                               FeatureObject(<<OtherRing>>)>>),
     FeatureCollectionObject(<<>>)}

\* What runAnalysis of Home leaves alone before its first await, and what the
\* other handlers of Home leave alone.
offHomeRun ==
    <<mounted, progress, timer, backend, inflight, ghost, geojsonError,
      resultsPanel, drone, sentDroneImageId>>
offHome == <<offHomeRun, nRuns, submit>>

\* const latlngs = layer.getLatLngs()[0].map((p) => [p.lng, p.lat]);
\* const geojson = [[[...latlngs, latlngs[0]]]];
DrawnGeojson(latLngs) ==
    LET latlngs == [k \in 1..Len(latLngs) |-> <<latLngs[k].lng, latLngs[k].lat>>]
    IN  <<(<<Append(latlngs, latlngs[1])>>)>>

handleCreate(latLngs) ==
    /\ mounted
    /\ polygon' = Some(DrawnGeojson(latLngs))
    /\ aoi' = Some(JSArray(DrawnGeojson(latLngs)))
    /\ UNCHANGED <<offHome, result, loading, error, pastYear, presentYear, sent>>

handleDelete ==
    /\ mounted
    /\ polygon' = NoAOI
    /\ aoi' = NoAOI
    /\ UNCHANGED <<offHome, result, loading, error, pastYear, presentYear, sent>>

\* positions={polygon[0].map((c: any) => [c[1], c[0]])}
Positions(p) == [k \in 1..Len(p[1]) |-> <<p[1][k][2], p[1][k][1]>>]

HomeSetPastYear(y) ==
    /\ mounted
    /\ pastYear' = y
    /\ UNCHANGED <<offHome, result, loading, error, aoi, polygon, presentYear, sent>>

HomeSetPresentYear(y) ==
    /\ mounted
    /\ presentYear' = y
    /\ UNCHANGED <<offHome, result, loading, error, aoi, polygon, pastYear, sent>>

\* Mutant: the first feature of a collection is not taken.
CleanedAOIAsIs(a) == Some(a)

\* aoi.type === "FeatureCollection" ? aoi.features[0] : aoi; <<>> is
\* undefined (features[0] of an empty array).
CleanedAOI(a) ==
    IF a.type = "FeatureCollection"
    THEN IF a.features # <<>> THEN Some(a.features[1]) ELSE <<>>
    ELSE Some(a)

\* const geometry = aoi.geometry ? aoi.geometry : aoi;
Geometry(a) == IF a.geometry # <<>> THEN a.geometry[1] ELSE a

\* runAnalysis of Home up to the fetch of submitAnalysis.  With cleanedAOI
\* undefined, aoi.geometry throws a TypeError inside submitAnalysis and the
\* catch block runs: nothing is sent.
HomeRun ==
    /\ mounted
    /\ aoi # NoAOI
    /\ ~loading
    /\ nRuns < MaxRuns
    /\ result' = NoResult
    /\ LET cleanedAOI == CleanedAOI(aoi[1]) IN
         IF cleanedAOI = <<>> THEN
            /\ error' = HomeRequestFailed
            /\ loading' = FALSE
            /\ UNCHANGED <<sent, nRuns, submit>>
         ELSE
            /\ error' = Null
            /\ loading' = TRUE
            /\ nRuns' = nRuns + 1
            /\ submit' = [submit EXCEPT ![nRuns + 1] = "pending"]
            /\ sent' = Some([geometry |-> Geometry(cleanedAOI[1]),
                             past_year |-> pastYear,
                             present_year |-> presentYear])
    /\ UNCHANGED <<offHomeRun, aoi, polygon, pastYear, presentYear>>

\* The request of run r fails (the fetch rejects or the response is not
\* ok): the catch block of runAnalysis.
HomeSubmitFail(r) ==
    /\ mounted
    /\ submit[r] = "pending"
    /\ submit' = [submit EXCEPT ![r] = "failed"]
    /\ error' = HomeRequestFailed
    /\ loading' = FALSE
    /\ UNCHANGED <<offHomeRun, nRuns, result, aoi, polygon, pastYear, presentYear,
                   sent>>

\* submitAnalysis resolves: setInterval(..., 3000).  Home has no progress
\* state.
HomeSubmitOk(r) ==
    /\ submit[r] = "pending"
    /\ submit' = [submit EXCEPT ![r] = "ok"]
    /\ job' = [job EXCEPT ![r] = "processing"]
    /\ timer' = [timer EXCEPT ![r] = TRUE]
    /\ UNCHANGED <<offPoll, mounted, aoi, page, nRuns, jobError, inflight, ghost>>

HomeAnalysisFailed == "Analysis failed. Please try again."

\* The callback of Home resumes after await fetchResult(job_id) with the
\* answer to request i: two ifs, and nothing for any other status.
HomePollDeliver(r, i, status) ==
    /\ i \in 1..Len(inflight[r])
    /\ status \in Answers(r, i)
    /\ LET res == [status |-> status] IN
         IF res.status = "completed" THEN
            /\ result' = SetState(result, r)
            /\ loading' = SetState(loading, FALSE)
            /\ timer' = ClearInterval(r)
            /\ UNCHANGED error
         ELSE IF res.status = "failed" THEN
            /\ error' = SetState(error, HomeAnalysisFailed)
            /\ loading' = SetState(loading, FALSE)
            /\ timer' = ClearInterval(r)
            /\ UNCHANGED result
         ELSE
            UNCHANGED <<result, loading, error, timer>>
    /\ inflight' = [inflight EXCEPT ![r] = Overtake(@, i)]
    /\ UNCHANGED <<offPoll, mounted, aoi, progress, nRuns, submit, backend, ghost>>

InitHome ==
    /\ aoi \in {NoAOI} \cup {Some(a) : a \in HomeAOIs}
    /\ mounted = TRUE
    /\ pastYear = DefaultPastYear
    /\ presentYear = DefaultPresentYear
    /\ geojsonError = Null
    /\ sent = <<>>
    /\ props = <<>>
    /\ panel = <<>>
    /\ polygon = NoAOI
    /\ droneFile = <<>>
    /\ droneFileId = <<>>
    /\ uploadStatus = ""
    /\ uploads = {}
    /\ sentDroneImageId = <<>>
    /\ result = NoResult
    /\ loading = FALSE
    /\ error = Null
    /\ progress = ""
    /\ nRuns = 0
    /\ submit = [r \in Runs |-> "none"]
    /\ timer = [r \in Runs |-> FALSE]
    /\ job = [r \in Runs |-> "none"]
    /\ jobError = [r \in Runs |-> ""]
    /\ inflight = [r \in Runs |-> <<>>]
    /\ netFailed = [r \in Runs |-> FALSE]
    /\ abandoned = {}
    /\ recording = FALSE

NextHome ==
    \/ \E latLngs \in Drawings : handleCreate(latLngs)
    \/ handleDelete
    \/ \E y \in HomePastYears : HomeSetPastYear(y)
    \/ \E y \in HomePresentYears : HomeSetPresentYear(y)
    \/ HomeRun
    \/ \E r \in Runs : HomeSubmitFail(r)

HomeSpec == InitHome /\ [][NextHome]_vars

\* Home submitting and polling.  fetchResult throws on a response that is
\* not ok, and the callback rejects with it as it does when the fetch itself
\* rejects: PollNetFail.
NextHomePoll ==
    \/ HomeRun
    \/ \E r \in Runs : HomeSubmitFail(r)
    \/ \E r \in Runs : HomeSubmitOk(r)
    \/ \E r \in Runs, e \in JobErrors : BackendFinish(r, "failed", e)
    \/ \E r \in Runs : BackendFinish(r, "completed", "")
    \/ \E r \in Runs : Tick(r)
    \/ \E r \in Runs, i \in 1..MaxInFlight, status \in Statuses :
          HomePollDeliver(r, i, status)
    \/ \E r \in Runs, i \in 1..MaxInFlight : PollNetFail(r, i)

HomePollSpec == InitHome /\ [][NextHomePoll]_vars

\* ------------------------------------------------------------ ResultsPanel
\* A JavaScript number, or undefined.  A finite number is the fraction n / d
\* in lowest terms with d > 0; the covers and the change of a result are
\* whole numbers of hectares here.
Num(n) == [k |-> "num", n |-> n, d |-> 1]
Undefined == [k |-> "undefined", n |-> 0, d |-> 1]
NaN == [k |-> "NaN", n |-> 0, d |-> 1]
Infinity == [k |-> "Infinity", n |-> 0, d |-> 1]
NegInfinity == [k |-> "-Infinity", n |-> 0, d |-> 1]

RECURSIVE GCD(_, _)
GCD(a, b) == IF b = 0 THEN a ELSE GCD(b, a % b)
AbsInt(n) == IF n < 0 THEN -n ELSE n
\* The number n / d, d # 0.
Rat(n, d) ==
    LET g == GCD(AbsInt(n), AbsInt(d))
        sign == IF d < 0 THEN -1 ELSE 1
    IN  [k |-> "num", n |-> sign * (n \div g), d |-> AbsInt(d) \div g]

\* x <= 0, x > y, !x and x === 0 for numbers that may be undefined: a
\* comparison with undefined (NaN as a number) is false.
LeZero(x) == x.k = "num" /\ x.n <= 0
Greater(x, y) == x.k = "num" /\ y.k = "num" /\ x.n * y.d > y.n * x.d
Falsy(x) == x.k \in {"undefined", "NaN"} \/ (x.k = "num" /\ x.n = 0)
IsZero(x) == x.k = "num" /\ x.n = 0

\* ((present - past) / past) * 100 in JavaScript arithmetic, for whole
\* numbers or undefined.
PercentOf(past, present) ==
    IF past.k # "num" \/ present.k # "num" THEN NaN
    ELSE IF past.n = 0 THEN
            IF present.n = 0 THEN NaN
            ELSE IF present.n > 0 THEN Infinity ELSE NegInfinity
    ELSE Rat((present.n - past.n) * 100, past.n)

\* Math.abs(x) and Math.min(x, cap) with a whole cap.
MathAbs(x) ==
    IF x.k = "num" THEN [x EXCEPT !.n = AbsInt(x.n)]
    ELSE IF x.k \in {"Infinity", "-Infinity"} THEN Infinity
    ELSE NaN
MathMin(x, cap) ==
    IF x.k = "num" THEN (IF x.n > cap * x.d THEN Num(cap) ELSE x)
    ELSE IF x.k = "Infinity" THEN Num(cap)
    ELSE IF x.k = "-Infinity" THEN NegInfinity
    ELSE NaN

\* x / c and x * c for a whole c > 0.
DivBy(x, c) == IF x.k = "num" THEN Rat(x.n, x.d * c) ELSE x
Times(x, c) == IF x.k = "num" THEN Rat(x.n * c, x.d) ELSE x

MAX_VISUAL_PERCENT == 5

\* Mutant: the percentage is not capped.
visualPercentUncapped(pc) == MathAbs(pc)

\* Math.min(Math.abs(percentageChange), MAX_VISUAL_PERCENT)
visualPercent(pc) == MathMin(MathAbs(pc), MAX_VISUAL_PERCENT)

\* The width of a bar, in per cent of the track:
\* (visualPercent / MAX_VISUAL_PERCENT) * 50
BarWidth(pc) == Times(DivBy(visualPercent(pc), MAX_VISUAL_PERCENT), 50)

\* The covers and the changes of the results the backend answers with:
\* small covers, and larger ones for changes of 12 per cent (25 ha to 28 ha)
\* and of less than 5 per cent (40 ha to 41 ha).
MaxCover == 3
Covers == {Undefined} \cup {Num(n) : n \in (-1)..MaxCover \cup {25, 28, 40, 41}}
Changes == {Num(n) : n \in (-1)..1}
SatelliteComparisons ==
    [past_cover_ha : Covers, present_cover_ha : Covers, change_ha : Changes]

\* JavaScript null where a number is expected.
NullNumber == [k |-> "null", n |-> 0, d |-> 1]

\* result.drone_data: absent (undefined), null, or an object whose
\* vegetation_area_ha is a number, null or absent (an object that only
\* carries an error).
DroneData(kind, vegetation_area_ha) ==
    [kind |-> kind, vegetation_area_ha |-> vegetation_area_ha]
DroneVegetations == {Undefined, NullNumber, Num(0), Num(36), Num(41)}
DroneDatas ==
    {DroneData("undefined", Undefined), DroneData("null", Undefined)}
       \cup {DroneData("object", v) : v \in DroneVegetations}

\* The results a panel is given.
Results == [satellite_comparison : SatelliteComparisons, drone_data : DroneDatas]

\* A value that setResult is given and the panel receives as result:
\* undefined, or an object with the properties status ("" when it has none),
\* satellite_comparison, drone_data and result (<<>> when it has none).
ResultValue(kind, status, satellite_comparison, drone_data, nested) ==
    [kind |-> kind, status |-> status,
     satellite_comparison |-> satellite_comparison, drone_data |-> drone_data,
     result |-> nested]
UndefinedValue ==
    ResultValue("undefined", "", <<>>, DroneData("undefined", Undefined), <<>>)
\* The AnalysisResult r as the panels are written for it.
Canonical(r) ==
    ResultValue("object", "", Some(r.satellite_comparison), r.drone_data, <<>>)
\* The two shapes of the body of a completed job: {status, result: {...}}
\* and {status, satellite_comparison, drone_data}.
NestedResponse(r) ==
    ResultValue("object", "completed", <<>>, DroneData("undefined", Undefined),
                Some(r))
FlattenedResponse(r) ==
    ResultValue("object", "completed", Some(r.satellite_comparison), r.drone_data,
                <<>>)

\* droneData?.vegetation_area_ha ?? null, with droneData = result.drone_data
\* ?? null (part_003) or result.drone_data || null (part_004).
droneVegetation(drone_data) ==
    IF drone_data.kind # "object" THEN NullNumber
    ELSE IF drone_data.vegetation_area_ha.k \in {"undefined", "null"} THEN NullNumber
    ELSE drone_data.vegetation_area_ha

\* Mutant: no test of satellitePresent > 0.
droneDiffPctUnguarded(drone_data, present_cover_ha) ==
    IF droneVegetation(drone_data) # NullNumber
    THEN PercentOf(present_cover_ha, droneVegetation(drone_data))
    ELSE NullNumber

\* droneVegetation !== null && satellitePresent > 0
\*   ? ((droneVegetation - satellitePresent) / satellitePresent) * 100 : null
droneDiffPct(drone_data, present_cover_ha) ==
    IF droneVegetation(drone_data) # NullNumber /\ Greater(present_cover_ha, Num(0))
    THEN PercentOf(present_cover_ha, droneVegetation(drone_data))
    ELSE NullNumber

\* part_003: if (past_cover_ha <= 0) return 0;
percentageChange(past_cover_ha, present_cover_ha) ==
    IF LeZero(past_cover_ha) THEN Num(0)
    ELSE PercentOf(past_cover_ha, present_cover_ha)

\* part_002: if (!past_cover_ha || past_cover_ha === 0) return 0;
percentageChangeNoMaps(past_cover_ha, present_cover_ha) ==
    IF Falsy(past_cover_ha) \/ IsZero(past_cover_ha) THEN Num(0)
    ELSE PercentOf(past_cover_ha, present_cover_ha)

\* What a render shows; gainBar and lossBar say that the element of the bar
\* is rendered.  past_cover_ha.toFixed(2) and
\* present_cover_ha.toFixed(2) throw a TypeError on undefined: the render is
\* abandoned and nothing is shown.
Rendered(component, sat, pc, isGain, gainBar, lossBar, droneDiff) ==
    LET threw == sat.past_cover_ha.k # "num" \/ sat.present_cover_ha.k # "num"
    IN  [component |-> component,
         returnedNull |-> FALSE,
         percentageChange |-> pc,
         isGain |-> isGain,
         absChange |-> MathAbs(sat.change_ha),
         visualPercent |-> visualPercent(pc),
         barWidth |-> BarWidth(pc),
         droneDiffPct |-> droneDiff,
         threw |-> threw,
         gainBar |-> ~threw /\ gainBar,
         lossBar |-> ~threw /\ lossBar,
         label |-> IF threw THEN ""
                   ELSE IF IsZero(sat.change_ha) THEN "No detectable change"
                   ELSE IF isGain THEN "Gain" ELSE "Loss"]

\* if (!result?.satellite_comparison) return null;
ReturnedNull(component) ==
    [component |-> component,
     returnedNull |-> TRUE,
     percentageChange |-> Undefined,
     isGain |-> FALSE,
     absChange |-> Undefined,
     visualPercent |-> Undefined,
     barWidth |-> Undefined,
     droneDiffPct |-> Undefined,
     threw |-> FALSE,
     gainBar |-> FALSE,
     lossBar |-> FALSE,
     label |-> ""]

offPanel ==
    <<mounted, aoi, page, nRuns, submit, timer, backend, inflight, ghost, form,
      sent, polygon, drone, sentDroneImageId>>

\* ResultsPanel of part_003 renders the result it is given.
ResultsPanel ==
    /\ props # <<>>
    /\ IF props[1].satellite_comparison = <<>> THEN
          panel' = Some(ReturnedNull("part_003"))
       ELSE
          LET sat == props[1].satellite_comparison[1]
              isGain == Greater(sat.present_cover_ha, sat.past_cover_ha)
              isLoss == Greater(sat.past_cover_ha, sat.present_cover_ha)
          IN  panel' = Some(Rendered("part_003", sat,
                                     percentageChange(sat.past_cover_ha,
                                                      sat.present_cover_ha),
                                     isGain, isGain, isLoss,
                                     droneDiffPct(props[1].drone_data,
                                                  sat.present_cover_ha)))
    /\ UNCHANGED <<props, offPanel>>

\* ResultsPanel of part_002 (no maps, no tiles) renders the same; it has no
\* drone comparison.
ResultsPanelNoMaps ==
    /\ props # <<>>
    /\ IF props[1].satellite_comparison = <<>> THEN
          panel' = Some(ReturnedNull("part_002"))
       ELSE
          LET sat == props[1].satellite_comparison[1]
              isGain == Greater(sat.change_ha, Num(0))
          IN  panel' = Some(Rendered("part_002", sat,
                                     percentageChangeNoMaps(sat.past_cover_ha,
                                                            sat.present_cover_ha),
                                     isGain, isGain, ~isGain, Undefined))
    /\ UNCHANGED <<props, offPanel>>

\* ResultsPanel of part_004 (no maps, no tiles, with the drone comparison).
ResultsPanelDrone ==
    /\ props # <<>>
    /\ IF props[1].satellite_comparison = <<>> THEN
          panel' = Some(ReturnedNull("part_004"))
       ELSE
          LET sat == props[1].satellite_comparison[1]
              isGain == Greater(sat.change_ha, Num(0))
          IN  panel' = Some(Rendered("part_004", sat,
                                     percentageChangeNoMaps(sat.past_cover_ha,
                                                            sat.present_cover_ha),
                                     isGain, isGain,
                                     ~isGain /\ ~IsZero(sat.change_ha),
                                     droneDiffPct(props[1].drone_data,
                                                  sat.present_cover_ha)))
    /\ UNCHANGED <<props, offPanel>>

\* The page of a run that has completed: the panel is given its result.
InitPanel ==
    /\ props \in {Some(Canonical(r)) : r \in Results}
    /\ panel = <<>>
    /\ mounted = TRUE
    /\ aoi = NoAOI
    /\ pastYear = DefaultPastYear
    /\ presentYear = DefaultPresentYear
    /\ geojsonError = Null
    /\ sent = <<>>
    /\ polygon = NoAOI
    /\ droneFile = <<>>
    /\ droneFileId = <<>>
    /\ uploadStatus = ""
    /\ uploads = {}
    /\ sentDroneImageId = <<>>
    /\ result = NoResult
    /\ loading = FALSE
    /\ error = Null
    /\ progress = ""
    /\ nRuns = 0
    /\ submit = [r \in Runs |-> "none"]
    /\ timer = [r \in Runs |-> FALSE]
    /\ job = [r \in Runs |-> "none"]
    /\ jobError = [r \in Runs |-> ""]
    /\ inflight = [r \in Runs |-> <<>>]
    /\ netFailed = [r \in Runs |-> FALSE]
    /\ abandoned = {}
    /\ recording = FALSE

NextPanel ==
    \/ ResultsPanel
    \/ ResultsPanelNoMaps
    \/ ResultsPanelDrone

PanelSpec == InitPanel /\ [][NextPanel]_vars

\* ------------------------------------------------------------ the result
\* The bodies of the responses for a completed job, in the two shapes.
ResponsePayloads ==
    {[satellite_comparison |->
         [past_cover_ha |-> Num(40), present_cover_ha |-> Num(41),
          change_ha |-> Num(1)],
      drone_data |-> DroneData("object", Num(36))],
     [satellite_comparison |->
         [past_cover_ha |-> Num(28), present_cover_ha |-> Num(25),
          change_ha |-> Num(-1)],
      drone_data |-> DroneData("undefined", Undefined)]}
CompletedResponses ==
    {NestedResponse(r) : r \in ResponsePayloads}
       \cup {FlattenedResponse(r) : r \in ResponsePayloads}

\* setResult(jobData.result) of part_001; setResult(jobData) of page.tsx.
StoredResult(jobData) ==
    IF jobData.result = <<>> THEN UndefinedValue ELSE Canonical(jobData.result[1])
StoredEnvelope(jobData) == jobData

\* The completed branch of the callback with the value it stores, and
\* {result && aoi && <ResultsPanel result={result} aoi={aoi} />} of the
\* render that follows.
DeliverCompleted(r, i, stored) ==
    /\ i \in 1..Len(inflight[r])
    /\ "completed" \in Answers(r, i)
    /\ result' = SetState(result, IF stored.kind = "object" THEN r ELSE NoResult)
    /\ loading' = SetState(loading, FALSE)
    /\ progress' = SetState(progress, "")
    /\ timer' = ClearInterval(r)
    /\ props' = SetState(props, IF stored.kind = "object" /\ aoi # NoAOI
                                 THEN Some(stored) ELSE <<>>)
    /\ panel' = SetState(panel, <<>>)
    /\ inflight' = [inflight EXCEPT ![r] = Overtake(@, i)]
    /\ netFailed' = [netFailed EXCEPT ![r] = @ /\ Alive(r)']
    /\ UNCHANGED <<mounted, aoi, error, nRuns, submit, backend, recording,
                   abandoned, form, sent, polygon, drone, sentDroneImageId>>

PollDeliverResult(r, i, jobData) == DeliverCompleted(r, i, StoredResult(jobData))

PollDeliverEnvelope(r, i, jobData) == DeliverCompleted(r, i, StoredEnvelope(jobData))

\* Submitting, polling and showing the result of jobs that complete.
NextResponse ==
    \/ SelectAOI
    \/ Run
    \/ \E r \in Runs : SubmitOk(r)
    \/ \E r \in Runs : BackendFinish(r, "completed", "")
    \/ \E r \in Runs : Tick(r)
    \/ \E r \in Runs, i \in 1..MaxInFlight, jobData \in CompletedResponses :
          PollDeliverResult(r, i, jobData)
    \/ \E r \in Runs, i \in 1..MaxInFlight, jobData \in CompletedResponses :
          PollDeliverEnvelope(r, i, jobData)
    \/ ResultsPanel

ResponseSpec == Init /\ [][NextResponse]_vars

\* ------------------------------------------------------------ claims
\* The timer of a run is started by its success response and cleared only by
\* a terminal branch of the callback: a terminal response has been processed.
TerminalSeen(r) == submit[r] = "ok" /\ ~timer[r]

\* C1: during the polling of one job at most one poll request of that job
\* is in flight at any instant.
C1_AtMostOneInFlight == \A r \in Runs : Len(inflight[r]) <= 1

\* C2: the response of a poll request that was started earlier is never
\* applied after the response of a poll request that was started later; in
\* particular no processing response is applied once a terminal response
\* has been.
C2_RecencyOrder ==
    [][\A r \in Runs, i \in 1..MaxInFlight, status \in Statuses :
          PollDeliver(r, i, status) =>
             /\ ~inflight[r][i].overtaken
             /\ (status = "processing" => ~TerminalSeen(r))]_vars

\* C3: the terminal completed update of a job is never delivered a second
\* time: a completed response is only ever processed while the job has had
\* no terminal response processed.
C3_CompletedAtMostOnce ==
    [][\A r \in Runs, i \in 1..MaxInFlight :
          PollDeliver(r, i, "completed") => ~TerminalSeen(r)]_vars

\* C4: once a terminal response of a job has been processed, no poll
\* request of the job is started and no poll response of the job changes
\* result, error, loading or progress.
C4_TerminalAbsorbing ==
    [][\A r \in Runs :
          TerminalSeen(r) =>
             /\ ~Tick(r)
             /\ \A i \in 1..MaxInFlight, status \in Statuses :
                   PollDeliver(r, i, status) => UNCHANGED page]_vars

\* C5: a poll round trip that fails in transport leaves result, error,
\* loading, progress and the timer as they are (so the next tick polls
\* again), and the completed update of a job that had such a failure is
\* never delivered a second time.
C5_TransportTolerated ==
    [][\A r \in Runs, i \in 1..MaxInFlight :
          /\ PollNetFail(r, i) => UNCHANGED <<page, timer>>
          /\ (netFailed[r] /\ PollDeliver(r, i, "completed"))
                => ~TerminalSeen(r)]_vars

\* C6: under fair ticks, answers and deliveries, a job that the backend
\* has brought to a terminal status eventually has a terminal response
\* processed: its timer is stopped and loading is false.
C6_EventuallyTerminalDelivered ==
    \A r \in Runs :
       (job[r] \in Terminal /\ timer[r]) ~> (TerminalSeen(r) /\ ~loading)

C6_Witness ==
    \E r \in Runs : job[r] \in Terminal /\ TerminalSeen(r) /\ ~loading /\ mounted

\* C7: once the watch of a job has been abandoned before a terminal
\* response (the page is left while its timer is active), no further poll
\* request of the job is issued and no terminal branch runs for it.
C7_NoPollAfterCancel ==
    [][\A r \in abandoned :
          /\ ~Tick(r)
          /\ \A i \in 1..MaxInFlight, status \in Terminal :
                ~PollDeliver(r, i, status)]_vars

\* C8: a failed response stops the polling, clears loading, leaves the
\* result unset and surfaces the backend's error text, or the default when
\* it has none; the failure is surfaced once.
C8_FailedSurfacedOnce ==
    [][\A r \in Runs, i \in 1..MaxInFlight :
          (mounted /\ PollDeliver(r, i, "failed")) =>
             /\ ~TerminalSeen(r)
             /\ ~timer'[r]
             /\ ~loading'
             /\ result' = NoResult
             /\ error' = (IF jobError[r] = "" THEN DefaultJobError
                          ELSE jobError[r])]_vars

\* What the claim takes the message of a rejected submit to be.
DetailOrGeneric(body) ==
    CASE body = "json_detail" -> BackendDetail
      [] body = "plain_text" -> BackendPlainText
      [] OTHER -> GenericSubmitError

\* C9: a non-success response to the job-creation request surfaces the
\* backend's error detail when the body carries one, a generic message
\* otherwise.
C9_SubmitErrorCarriesDetail ==
    [][\A r \in Runs, body \in SubmitBodies :
          (mounted /\ SubmitReject(r, body)) => error' = DetailOrGeneric(body)]_vars

\* C10: a submit that fails sets the error and clears loading at once, and
\* its run never has a timer, a job or a poll request.
C10_FailedSubmitNotRetried ==
    /\ [](\A r \in Runs :
             submit[r] = "failed" =>
                (~timer[r] /\ inflight[r] = <<>> /\ job[r] = "none"))
    /\ [][\A r \in Runs :
             (mounted /\ submit[r] = "pending" /\ submit'[r] = "failed") =>
                (error' # Null /\ ~loading')]_vars

C10_Witness ==
    \E r \in Runs : submit[r] = "failed" /\ mounted /\ error # Null /\ ~loading

\* C11: a poll response that belongs to one job never changes the result,
\* error, loading or progress that the page shows for another job: while the
\* latest run is nRuns, the responses of the earlier runs leave them alone.
C11_JobsIsolated ==
    [][\A r \in Runs, i \in 1..MaxInFlight :
          (r # nRuns /\ (\/ \E status \in Statuses : PollDeliver(r, i, status)
                         \/ PollHttpError(r, i)))
             => UNCHANGED page]_vars

\* C12: every analysis request that is sent to the job-creation endpoint
\* has past_year < present_year, whatever was picked in the two selectors.
C12_PastBeforePresent ==
    sent # <<>> => sent[1].past_year < sent[1].present_year

\* The pasted texts that are not valid JSON or do not hold a Polygon.
NotAPolygon ==
    {text \in GeojsonInputs :
        \/ ~JSONParse(text).ok
        \/ JSONParse(text).value.type # "Polygon"}
\* The coordinates the form has accepted from a drawing or a pasted Polygon.
AcceptedCoordinates ==
    {DrawnCoordinates(latLngs) : latLngs \in Drawings}
       \cup {<<ClosedRing>>, <<OpenRing>>, <<ShortRing>>}

\* C13: no request is sent to the job-creation endpoint unless an AOI has
\* been accepted, and what is sent is an accepted AOI; pasted text that is
\* not valid JSON or not a Polygon sets the error, stores no AOI and sends
\* nothing.
C13_MalformedNeverSubmitted ==
    /\ [](sent # <<>> =>
            (aoi # NoAOI /\ sent[1].geometry.coordinates \in AcceptedCoordinates))
    /\ [][\A text \in NotAPolygon :
             UseGeoJSON(text) =>
                (geojsonError' # Null /\ UNCHANGED <<aoi, sent, nRuns, submit>>)]_vars

C13_Witness == geojsonError = InvalidPolygonMessage /\ sent # <<>>

ExteriorRing(coordinates) == coordinates[1]
Closed(ring) == ring[1] = ring[Len(ring)]

\* C14: every ring of a geometry that is submitted is closed (its first
\* point equals its last), for drawn and for pasted AOIs: a ring that comes
\* in open has had its first point appended.
C14_SubmittedRingsClosed ==
    sent # <<>> =>
       \A k \in 1..Len(sent[1].geometry.coordinates) :
          Closed(sent[1].geometry.coordinates[k])

\* C15: an AOI whose exterior ring has fewer than 4 points is never stored
\* as the selected AOI and never submitted.
C15_ShortRingRejected ==
    /\ aoi # NoAOI => Len(ExteriorRing(aoi[1])) >= 4
    /\ sent # <<>> => Len(ExteriorRing(sent[1].geometry.coordinates)) >= 4

\* The rings of a parsed value that has one of the accepted shapes: a bare
\* array of rings, an object with a geometry, a FeatureCollection with a
\* first feature, a Polygon; <<>> when it has none of them.
ShapeRings(v) ==
    IF v.kind = "array" THEN v.items
    ELSE IF v.kind = "object" /\ v.geometry # <<>> THEN v.geometry[1].coordinates
    ELSE IF v.kind = "object" /\ v.type = "FeatureCollection" /\ v.features # <<>>
       THEN v.features[1].geometry[1].coordinates
    ELSE IF v.kind = "object" /\ v.type = "Polygon" THEN v.coordinates
    ELSE <<>>

\* C18: a pasted text is parsed as JSON and accepted in each of the shapes
\* (array of rings, object with a geometry, FeatureCollection, Polygon); it
\* gets the malformed-JSON error when it does not parse and another error,
\* not a Polygon, when the parsed value has none of the shapes.
C18_PastedShapesDispatched ==
    [][\A text \in GeojsonInputs :
          UseGeoJSON(text) =>
             LET parsed == JSONParse(text) IN
               IF ~parsed.ok THEN
                  geojsonError' = SyntaxErrorMessage /\ UNCHANGED aoi
               ELSE IF ShapeRings(parsed.value) # <<>> THEN
                  geojsonError' = Null /\ aoi' = ShapeRings(parsed.value)
               ELSE
                  /\ geojsonError' \notin {Null, SyntaxErrorMessage}
                  /\ UNCHANGED aoi]_vars

\* C16: AOI coordinates are kept in (longitude, latitude) order and are
\* converted back where the AOI is displayed: every vertex drawn at
\* (lat, lng) is stored as [lng, lat], and the polygon shown on the map has
\* the drawn vertices, in order, as (lat, lng).
C16_LonLatOrderKept ==
    [][\A latLngs \in Drawings :
          handleCreate(latLngs) =>
             /\ \A k \in 1..Len(latLngs) :
                   aoi'[1].items[1][1][1][k] = <<latLngs[k].lng, latLngs[k].lat>>
             /\ Len(Positions(polygon'[1])) >= Len(latLngs)
             /\ \A k \in 1..Len(latLngs) :
                   Positions(polygon'[1])[k] = <<latLngs[k].lat, latLngs[k].lng>>]_vars

\* The geometry the claim has sent for an AOI object.
FirstGeometry(a) ==
    IF a.type = "FeatureCollection" THEN a.features[1].geometry[1]
    ELSE IF a.type = "Feature" THEN a.geometry[1]
    ELSE a

\* C17: of a FeatureCollection with features the geometry of the first
\* feature is sent; of an object with a geometry that geometry; a bare
\* Polygon as it is.
C17_FirstFeatureGeometrySent ==
    [][(/\ HomeRun
        /\ aoi[1].kind = "object"
        /\ ~(aoi[1].type = "FeatureCollection" /\ aoi[1].features = <<>>))
          => /\ sent' # <<>>
             /\ sent'[1].geometry = FirstGeometry(aoi[1])
             /\ sent'[1].geometry.type = "Polygon"]_vars

C17_Witness ==
    /\ aoi # NoAOI
    /\ aoi[1].type = "FeatureCollection"
    /\ sent # <<>>
    /\ sent[1].geometry = PolygonObject(<<ClosedRing>>)

\* C19: percentageChange(past, present) is 0 for every past <= 0 and for a
\* missing past, is (present - past) / past * 100 otherwise, and is never
\* NaN or infinite.
C19_PercentageChangeGuarded ==
    (panel # <<>> /\ props[1].satellite_comparison[1].present_cover_ha.k = "num") =>
       LET past == props[1].satellite_comparison[1].past_cover_ha
           present == props[1].satellite_comparison[1].present_cover_ha
           pc == panel[1].percentageChange
       IN  /\ pc.k = "num"
           /\ (past.k # "num" \/ past.n <= 0) => pc = Num(0)
           /\ (past.k = "num" /\ past.n > 0) =>
                 pc.n * past.n = (present.n - past.n) * 100 * pc.d

\* C20: the direction follows change_ha alone: the label says Gain iff
\* change_ha > 0, Loss iff change_ha < 0 and no change iff change_ha = 0;
\* the gain bar and the loss bar are never both shown, neither is shown for
\* change_ha = 0, and a bar that is shown agrees with the label.
C20_DirectionFromChange ==
    (/\ panel # <<>>
     /\ props[1].satellite_comparison[1].past_cover_ha.k = "num"
     /\ props[1].satellite_comparison[1].present_cover_ha.k = "num") =>
       LET change == props[1].satellite_comparison[1].change_ha.n
           shown == panel[1]
       IN  /\ shown.label = "Gain" <=> change > 0
           /\ shown.label = "Loss" <=> change < 0
           /\ shown.label = "No detectable change" <=> change = 0
           /\ ~(shown.gainBar /\ shown.lossBar)
           /\ change = 0 => (~shown.gainBar /\ ~shown.lossBar)
           /\ shown.gainBar => shown.label = "Gain"
           /\ shown.lossBar => shown.label = "Loss"

\* C21: the fraction of the half track a bar fills is
\* min(|percentageChange|, 5) / 5: it lies in [0, 1], is 1 whenever
\* |percentageChange| >= 5 and is |percentageChange| / 5 below that, so the
\* width of a bar is never more than 50% of the track, in every render that
\* completes.
C21_VisualScaleCapped ==
    (panel # <<>> /\ ~panel[1].threw) =>
       LET pc == panel[1].percentageChange
           w == panel[1].barWidth
       IN  /\ pc.k = "num"
           /\ w.k = "num"
           /\ 0 <= w.n /\ w.n <= 50 * w.d
           /\ AbsInt(pc.n) >= 5 * pc.d => w = Num(50)
           /\ AbsInt(pc.n) < 5 * pc.d => w.n * pc.d * 5 = AbsInt(pc.n) * 50 * w.d

\* A change of 2.5 per cent (40 ha to 41 ha) fills half of the half track.
C21_Witness ==
    /\ panel # <<>>
    /\ panel[1].component = "part_003"
    /\ panel[1].percentageChange = Rat(5, 2)
    /\ panel[1].gainBar
    /\ panel[1].barWidth = Num(25)

\* C22: the drone-satellite difference is null when there is no drone
\* vegetation area or when the present satellite cover is <= 0, and is
\* (drone - satellite) / satellite * 100 otherwise; it is never NaN or
\* infinite (no division by zero).
C22_DroneDiffGuarded ==
    (/\ panel # <<>>
     /\ panel[1].component \in {"part_003", "part_004"}
     /\ props[1].satellite_comparison[1].present_cover_ha.k = "num") =>
       LET satellite == props[1].satellite_comparison[1].present_cover_ha
           data == props[1].drone_data
           vegetation == data.vegetation_area_ha
           absent == data.kind # "object" \/ vegetation.k # "num"
           diff == panel[1].droneDiffPct
       IN  /\ diff.k \in {"null", "num"}
           /\ (absent \/ satellite.n <= 0) => diff = NullNumber
           /\ (~absent /\ satellite.n > 0) =>
                 /\ diff.k = "num"
                 /\ diff.n * satellite.n = (vegetation.n - satellite.n) * 100 * diff.d

\* 36 ha from the drone against 40 ha from the satellite: -10 per cent.
C22_Witness ==
    /\ panel # <<>>
    /\ panel[1].component = "part_003"
    /\ props[1].drone_data = DroneData("object", Num(36))
    /\ props[1].satellite_comparison[1].present_cover_ha = Num(40)
    /\ panel[1].droneDiffPct = Num(-10)

\* C23: every job snapshot a poll obtains is delivered: a response with a
\* non-terminal status produces a progress update, on the DeforestationMonitor
\* page and on the Home page, and no response is dropped with the state of the
\* page left as it was.
C23_SnapshotsDelivered ==
    [][\A r \in Runs, i \in 1..MaxInFlight :
          /\ (mounted /\ PollDeliver(r, i, "processing")) =>
                progress' = "Processing satellite and drone data..."
          /\ (mounted /\ loading /\ HomePollDeliver(r, i, "processing")) =>
                ~UNCHANGED page]_vars

\* The satellite_comparison the body of a completed response carries.
Carried(jobData) ==
    IF jobData.result # <<>> THEN Some(jobData.result[1].satellite_comparison)
    ELSE jobData.satellite_comparison

\* C24: in whichever of the two shapes the completed response comes, the
\* value that is stored as the result has satellite_comparison at its top
\* level: the result is set and the results panel is given the data.
C24_ResultCanonical ==
    [][\A r \in Runs, i \in 1..MaxInFlight, jobData \in CompletedResponses :
          (mounted /\ (\/ PollDeliverResult(r, i, jobData)
                       \/ PollDeliverEnvelope(r, i, jobData))) =>
             /\ result' # NoResult
             /\ props' # <<>>
             /\ props'[1].satellite_comparison = Carried(jobData)]_vars

\* C25: the job-creation request carries the body {geometry, past_year,
\* present_year}, and the drone_image_id query parameter iff a drone file
\* identifier is held when it is sent; the identifier held, and so sent, is
\* the one the latest successful upload returned.
C25_DroneIdSentIffHeld ==
    [][/\ Run =>
             /\ sent' = Some([geometry |-> [type |-> "Polygon",
                                            coordinates |-> aoi[1]],
                              past_year |-> pastYear,
                              present_year |-> presentYear])
             /\ sentDroneImageId' = droneFileId
       /\ \A file \in Files :
             (mounted /\ UploadOk(file)) => droneFileId' = Some(FileId(file))
       /\ (\A file \in Files : ~UploadOk(file)) => UNCHANGED droneFileId]_vars

C25_Witness ==
    /\ sent # <<>>
    /\ droneFileId = Some(FileId("b.tif"))
    /\ sentDroneImageId = Some(FileId("b.tif"))
    /\ nRuns = 2

\* C30: a drone upload that fails changes the upload status only and leaves
\* the identifier that is held; the identifier is set by a successful upload
\* only and is never cleared afterwards, not by a later failed upload, by
\* picking another file or by an analysis that completes, so a later submit
\* still sends it.
C30_FailedUploadKeepsId ==
    [][/\ \A file \in Files, message \in UploadErrors :
             UploadFail(file, message) =>
                UNCHANGED <<droneFileId, droneFile, offDrone>>
       /\ droneFileId # <<>> => droneFileId' # <<>>
       /\ droneFileId' # droneFileId => \E file \in Files : UploadOk(file)
       /\ (Run /\ droneFileId # <<>>) => sentDroneImageId' = droneFileId]_vars

\* The identifier of a.tif is held and was sent although b.tif was picked
\* afterwards and an upload has failed since.
C30_Witness ==
    /\ droneFileId = Some(FileId("a.tif"))
    /\ droneFile = Some("b.tif")
    /\ uploadStatus = DroneUploadFailed
    /\ sentDroneImageId = Some(FileId("a.tif"))
    /\ result # NoResult

\* C26: while the page is shown, whenever a polling timer is active loading
\* is true (the Run Analysis button is disabled), and so at most one polling
\* timer is active at any time.
C26_TimerImpliesLoading ==
    mounted =>
       /\ \A r \in Runs : timer[r] => loading
       /\ Cardinality({r \in Runs : timer[r]}) <= 1

\* C27: the result and the error are never both set.
C27_ResultXorError == ~(result # NoResult /\ error # Null)

\* C28: a poll response with a non-success HTTP status is not taken for a
\* job snapshot: it produces no progress update and no terminal update, it
\* is a round trip that failed.  Stated for the requests that were sent
\* when the job was terminal, to which no snapshot says processing.
C28_HttpErrorNotASnapshot ==
    [][\A r \in Runs, i \in 1..MaxInFlight :
          (PollHttpError(r, i) /\ inflight[r][i].sentIn \in Terminal)
             => UNCHANGED <<page, timer>>]_vars

\* The pasted texts that hold a Polygon with an array of coordinates.
ValidPolygon ==
    {text \in GeojsonInputs :
        /\ JSONParse(text).ok
        /\ JSONParse(text).value.type = "Polygon"
        /\ JSONParse(text).value.coordinates # <<>>}

\* C29: applying a pasted text that is rejected sets the GeoJSON error and
\* leaves the AOI that was selected before, and a Run Analysis that follows
\* submits that AOI; applying a valid text clears the GeoJSON error and
\* replaces the AOI by its coordinates.
C29_RejectedPasteKeepsAOI ==
    [][/\ \A text \in GeojsonInputs \ ValidPolygon :
             UseGeoJSON(text) => (geojsonError' # Null /\ aoi' = aoi)
       /\ \A text \in ValidPolygon :
             UseGeoJSON(text) =>
                /\ geojsonError' = Null
                /\ aoi' = Some(JSONParse(text).value.coordinates[1])
       /\ Run => (aoi' = aoi /\ sent'[1].geometry.coordinates = aoi[1])]_vars

\* A drawn AOI has outlived a rejected paste and is being submitted.
C29_Witness ==
    /\ geojsonError = SyntaxErrorMessage
    /\ aoi = Some(DrawnCoordinates(Triangle))
    /\ loading
    /\ sent # <<>>
    /\ sent[1].geometry.coordinates = DrawnCoordinates(Triangle)

=============================================================================
